---- MODULE Spec2Model ----
(***************************************************************************)
(* The "no local changes" panel of the desktop client                      *)
(* (app/src/ui/changes/no-changes.tsx): the menu index built from the      *)
(* application menu, its single-slot memoisation, and the two render       *)
(* variants with their conditional actions.                                *)
(*                                                                         *)
(* Strings that the code takes apart (accelerators) are sequences of       *)
(* atoms: an atom is either the delimiter "+" or an indivisible run of     *)
(* other characters.  A menu reference is a record [ref, items]: the menu  *)
(* model is read-only, so a reference determines its content, and two      *)
(* references with different ref are different objects even when their     *)
(* items are equal.                                                        *)
(***************************************************************************)
EXTENDS Integers, Sequences, FiniteSets, TLC

VARIABLES
    platform,       \* build target: decides __DARWIN__ / __WIN32__
    flag,           \* enableNewNoChangesBlankslate() as evaluated by the last render
    repository,     \* props.repository
    appMenu,        \* props.appMenu: a menu reference or Undefined
    remote,         \* props.repositoryState.remote
    memo,           \* the single slot of memoizeOne(getMenuInfoMap)
    out,            \* what the last render produced
    log,            \* item ids passed to log.error by the last render
    lookups,        \* getMenuItemInfo calls made by the last render
    builds,         \* runs of the memoised function made by the last render or call
    effect          \* the command dispatched by the last click

vars == <<platform, flag, repository, appMenu, remote, memo, out, log,
          lookups, builds, effect>>

----------------------------------------------------------------------------
(* Bounds *)

MaxNodes == 3       \* items in a generated menu tree, all levels together
MaxAccelLen == 3    \* atoms in a generated accelerator
MaxMenus == 12      \* menu objects the parent component may supply

----------------------------------------------------------------------------
(* Values *)

Undefined == [ref |-> 0, items |-> <<>>]
Null == "null"
NullAccelerator == <<"null">>
Plus == "+"
Atoms == {Plus, "CmdOrCtrl", "Shift", "P"}
Platforms == {"darwin", "win32", "linux"}
Repositories == {"repo-a", "repo-b"}
Remotes == {Null, "origin"}

__DARWIN__ == platform = "darwin"
__WIN32__ == platform = "win32"

\* MenuItem, models/app-menu: one record shape for the three item types.
Separator(id) ==
    [type |-> "separator", id |-> id, label |-> "", enabled |-> FALSE,
     accelerator |-> NullAccelerator, menu |-> <<>>]
Leaf(id, label, enabled, accelerator) ==
    [type |-> "menuItem", id |-> id, label |-> label, enabled |-> enabled,
     accelerator |-> accelerator, menu |-> <<>>]
Submenu(id, label, enabled, menu) ==
    [type |-> "submenuItem", id |-> id, label |-> label, enabled |-> enabled,
     accelerator |-> NullAccelerator, menu |-> menu]

EmptyMap == [x \in {} |-> 0]

----------------------------------------------------------------------------
(* The menu index builder *)

\* String.prototype.split on a one-atom separator.
RECURSIVE split(_, _)
split(s, sep) ==
    IF \A i \in 1..Len(s) : s[i] # sep
    THEN <<s>>
    ELSE LET i == CHOOSE k \in 1..Len(s) :
                      s[k] = sep /\ \A j \in 1..(k - 1) : s[j] # sep
         IN  <<SubSeq(s, 1, i - 1)>> \o split(SubSeq(s, i + 1, Len(s)), sep)

\* lib/menu-item: the platform's name or symbol for a modifier, the
\* modifier itself for any other key.
getPlatformSpecificNameOrSymbolForModifier(modifier) ==
    CASE modifier = <<"CmdOrCtrl">> ->
            IF __DARWIN__ THEN <<"CommandSymbol">> ELSE <<"Ctrl">>
      [] modifier = <<"Shift">> ->
            IF __DARWIN__ THEN <<"ShiftSymbol">> ELSE <<"Shift">>
      [] OTHER -> modifier

getItemAcceleratorKeys_unmapped(item) ==
    IF item.type = "separator" \/ item.type = "submenuItem"
    THEN <<>>
    ELSE IF item.accelerator = NullAccelerator
         THEN <<>>
         ELSE split(item.accelerator, Plus)

getItemAcceleratorKeys(item) ==
    IF item.type = "separator" \/ item.type = "submenuItem"
    THEN <<>>
    ELSE IF item.accelerator = NullAccelerator
         THEN <<>>
         ELSE LET tokens == split(item.accelerator, Plus)
              IN  [i \in 1..Len(tokens) |->
                      getPlatformSpecificNameOrSymbolForModifier(tokens[i])]

\* Map.prototype.set
MapSet(map, key, value) ==
    [k \in DOMAIN map \cup {key} |-> IF k = key THEN value ELSE map[k]]

\* The IMenuItemInfo of an item; parent is <<>> (undefined) or <<info>>.
InfoItem_rootFirst(item, parent) ==
    [label |-> item.label,
     acceleratorKeys |-> getItemAcceleratorKeys(item),
     parentMenuLabels |->
        IF parent = <<>> THEN <<>>
        ELSE parent[1].parentMenuLabels \o <<parent[1].label>>,
     enabled |-> item.enabled]

InfoItem(item, parent) ==
    [label |-> item.label,
     acceleratorKeys |-> getItemAcceleratorKeys(item),
     parentMenuLabels |->
        IF parent = <<>> THEN <<>>
        ELSE <<parent[1].label>> \o parent[1].parentMenuLabels,
     enabled |-> item.enabled]

\* Does the loop index the item at all?
Skipped_none(item) == FALSE

Skipped(item) == item.type = "separator"

\* The map entry kept when an id is set again.
Overwrite_keepFirst(map, key, value) ==
    IF key \in DOMAIN map THEN map ELSE MapSet(map, key, value)

Overwrite(map, key, value) == MapSet(map, key, value)

\* The for loop of buildMenuItemInfoMap from item i on.
RECURSIVE BuildFrom(_, _, _, _)
BuildFrom(items, i, map, parent) ==
    IF i > Len(items) THEN map
    ELSE LET item == items[i] IN
         IF Skipped(item)
         THEN BuildFrom(items, i + 1, map, parent)
         ELSE LET infoItem == InfoItem(item, parent)
                  set == Overwrite(map, item.id, infoItem)
                  sub == IF item.type = "submenuItem"
                         THEN BuildFrom(item.menu, 1, set, <<infoItem>>)
                         ELSE set
              IN  BuildFrom(items, i + 1, sub, parent)

buildMenuItemInfoMap(menu) == BuildFrom(menu.items, 1, EmptyMap, <<>>)

----------------------------------------------------------------------------
(* The memoised index: memoizeOne keeps the last argument and its result *)

\* The function handed to memoizeOne.
resultFn(menu) ==
    IF menu = Undefined THEN EmptyMap ELSE buildMenuItemInfoMap(menu)

CacheHit_never(m, menu) == FALSE

CacheHit_anyArgument(m, menu) == m.calledOnce

\* memoizeOne's test: called before, and the argument is the same reference.
CacheHit(m, menu) == m.calledOnce /\ m.lastArg = menu

\* A render in progress: st = [memo, log, lookups, builds].
getMenuInfoMap(st, menu) ==
    IF CacheHit(st.memo, menu)
    THEN st
    ELSE [st EXCEPT
            !.memo = [calledOnce |-> TRUE, lastArg |-> menu,
                      lastResult |-> resultFn(menu)],
            !.builds = @ + 1]

\* Returns the render in progress and <<info>>, or <<>> for undefined.
getMenuItemInfo(st, props, menuItemId) ==
    LET Get(s, map) ==
            [st |-> [s EXCEPT !.lookups = @ + 1],
             info |-> IF menuItemId \in DOMAIN map
                      THEN <<map[menuItemId]>> ELSE <<>>]
        In(s) == Get(s, s.memo.lastResult)
    IN  In(getMenuInfoMap(st, props.appMenu))

----------------------------------------------------------------------------
(* Rendering *)

\* Array.prototype.join
RECURSIVE join(_, _)
join(a, sep) ==
    IF Len(a) = 0 THEN <<>>
    ELSE IF Len(a) = 1 THEN <<a[1]>>
    ELSE <<a[1], sep>> \o join(Tail(a), sep)

getPlatformFileManagerName ==
    IF __DARWIN__ THEN "Finder"
    ELSE IF __WIN32__ THEN "Explorer" ELSE "Your File Manager"

renderDiscoverabilityElements(menuItem) ==
    [parentMenusText |-> join(menuItem.parentMenuLabels, " -> "),
     keyboardShortcut |-> menuItem.acceleratorKeys]

NoElement == <<>>

LogError_silent(st, itemId) == st

\* log.error(`Could not find matching menu item for ${itemId}`)
LogError(st, itemId) == [st EXCEPT !.log = Append(@, itemId)]

Hidden_never(menuItem) == FALSE

\* The test that omits an action whose menu item is disabled.
Hidden(menuItem) == ~menuItem.enabled

\* Returns [st, el]: el is <<>> for null, else <<element>>.
renderMenuBackedAction(st, props, itemId, title, description) ==
    LET With(r) ==
            IF r.info = <<>>
            THEN [st |-> LogError(r.st, itemId), el |-> NoElement]
            ELSE IF Hidden(r.info[1])
            THEN [st |-> r.st, el |-> NoElement]
            ELSE [st |-> r.st,
                  el |-> <<[component |-> "MenuBackedBlankslateAction",
                            title |-> title,
                            description |-> description,
                            discoverabilityContent |->
                                renderDiscoverabilityElements(r.info[1]),
                            menuItemId |-> itemId,
                            buttonText |-> r.info[1].label,
                            onClick |-> "executeMenuItemById",
                            type |-> "secondary"]>>]
    IN  With(getMenuItemInfo(st, props, itemId))

renderShowInFinderAction(st, props) ==
    renderMenuBackedAction(st, props, "open-working-directory",
        <<"View the files in your repository in ", getPlatformFileManagerName>>,
        <<>>)

renderViewOnGitHub(st, props) ==
    renderMenuBackedAction(st, props, "view-repository-on-github",
        <<"Open the repository page on GitHub in your browser">>, <<>>)

PreferencesMissing_ignored(info) == FALSE

\* The second lookup of renderOpenInExternalEditor came back undefined.
PreferencesMissing(info) == info = <<>>

renderOpenInExternalEditor(st, props) ==
    LET itemId == "open-external-editor"
        WithPreferences(q) ==
            IF PreferencesMissing(q.info)
            THEN [st |-> LogError(q.st, itemId), el |-> NoElement]
            ELSE renderMenuBackedAction(q.st, props, itemId,
                    <<"Open the repository in your external editor">>,
                    <<"Configure which editor you wish to use in ",
                      [component |-> "LinkButton", onClick |-> "openPreferences",
                       text |-> IF __DARWIN__ THEN "preferences" ELSE "options"]>>)
        With(r) ==
            IF r.info = <<>>
            THEN [st |-> LogError(r.st, itemId), el |-> NoElement]
            ELSE WithPreferences(getMenuItemInfo(r.st, props, "preferences"))
    IN  With(getMenuItemInfo(st, props, itemId))

renderPublishRepositoryAction(st, props) ==
    LET itemId == "push"
        With(r) ==
            IF r.info = <<>>
            THEN [st |-> LogError(r.st, itemId), el |-> NoElement]
            ELSE [st |-> r.st,
                  el |-> <<[component |-> "BlankslateAction",
                            title |-> <<"Publish your repository to GitHub">>,
                            description |-> <<>>,
                            discoverabilityContent |->
                                renderDiscoverabilityElements(r.info[1]),
                            menuItemId |-> "",
                            buttonText |-> "Publish repository",
                            onClick |-> "onPublishRepositoryClicked",
                            type |-> "primary"]>>]
    IN  With(getMenuItemInfo(st, props, itemId))

HasRemote_always(props) == TRUE

\* renderRemoteAction's test of repositoryState.remote.
HasRemote(props) == props.remote # Null

renderRemoteAction(st, props) ==
    IF ~HasRemote(props)
    THEN renderPublishRepositoryAction(st, props)
    ELSE [st |-> st, el |-> NoElement]

\* Returns [st, el]; the element lists the two containers' children.
renderActions(st, props) ==
    LET Fragment(remoteAction, finder, editor, github) ==
            [st |-> github.st,
             el |-> [primaryContainer |-> remoteAction.el # NoElement,
                     primary |-> remoteAction.el,
                     actions |-> finder.el \o editor.el \o github.el]]
        Third(remoteAction, finder, editor) ==
            Fragment(remoteAction, finder, editor,
                     renderViewOnGitHub(editor.st, props))
        Second(remoteAction, finder) ==
            Third(remoteAction, finder,
                  renderOpenInExternalEditor(finder.st, props))
        First(remoteAction) ==
            Second(remoteAction,
                   renderShowInFinderAction(remoteAction.st, props))
    IN  First(renderRemoteAction(st, props))

renderNewNoChangesBlankSlate(st, props) ==
    LET Panel(a) ==
            [st |-> a.st,
             el |-> [variant |-> "Enhanced",
                     primaryContainer |-> a.el.primaryContainer,
                     primary |-> a.el.primary,
                     actions |-> a.el.actions,
                     link |-> "",
                     opener |-> ""]]
    IN  Panel(renderActions(st, props))

renderClassicBlankSlate(st, props) ==
    [st |-> st,
     el |-> [variant |-> "Legacy",
             primaryContainer |-> FALSE,
             primary |-> <<>>,
             actions |-> <<>>,
             link |-> "open",
             opener |-> IF __DARWIN__ THEN "Finder"
                        ELSE IF __WIN32__ THEN "Explorer"
                        ELSE "your File Manager"]]

UseNew_always(enabled) == TRUE

\* render's test of enableNewNoChangesBlankslate().
UseNew(enabled) == enabled

render(st, props, enabled) ==
    IF UseNew(enabled)
    THEN renderNewNoChangesBlankSlate(st, props)
    ELSE renderClassicBlankSlate(st, props)

----------------------------------------------------------------------------
(* The application menus the component is given *)

ActionIdSeq ==
    <<"push", "open-working-directory", "open-external-editor",
      "preferences", "view-repository-on-github">>
ActionIds == {ActionIdSeq[i] : i \in 1..Len(ActionIdSeq)}

ItemLabel(id) ==
    CASE id = "push" -> "P&ush"
      [] id = "open-working-directory" -> "Show in E&xplorer"
      [] id = "open-external-editor" -> "&Open in external editor"
      [] id = "preferences" -> "&Options"
      [] OTHER -> "&View on GitHub"

ItemAccelerator(id) ==
    CASE id = "push" -> <<"CmdOrCtrl", "+", "P">>
      [] id = "open-working-directory" -> <<"CmdOrCtrl", "+", "Shift", "+", "P">>
      [] id = "open-external-editor" -> <<"CmdOrCtrl", "+", "Shift", "+", "Shift">>
      [] id = "preferences" -> <<"CmdOrCtrl", "+", "Shift">>
      [] OTHER -> NullAccelerator

\* The items of a menu whose entries for ActionIds are as status says:
\* "absent", "disabled" or "enabled".
MenuEntry(status, id) ==
    IF status[id] = "absent" THEN <<>>
    ELSE <<Leaf(id, ItemLabel(id), status[id] = "enabled", ItemAccelerator(id))>>

AppMenuItems(status) ==
    << Submenu("@.File", "&File", TRUE,
               MenuEntry(status, "preferences")),
       Submenu("@.Repository", "&Repository", TRUE,
               MenuEntry(status, "push")
               \o <<Separator("@.Repository.sep")>>
               \o MenuEntry(status, "open-working-directory")
               \o MenuEntry(status, "open-external-editor")
               \o MenuEntry(status, "view-repository-on-github")) >>

AllEnabled == [id \in ActionIds |-> "enabled"]

\* The n-th menu content: every entry enabled, then one entry absent,
\* then one entry disabled, and again from the start.
MenuStatus(n) ==
    LET k == (n - 1) % (2 * Len(ActionIdSeq) + 1) IN
    IF k = 0 THEN AllEnabled
    ELSE IF k <= Len(ActionIdSeq)
    THEN [AllEnabled EXCEPT ![ActionIdSeq[k]] = "absent"]
    ELSE [AllEnabled EXCEPT ![ActionIdSeq[k - Len(ActionIdSeq)]] = "disabled"]

MenuRefs == {[ref |-> n, items |-> AppMenuItems(MenuStatus(n))] : n \in 1..MaxMenus}

----------------------------------------------------------------------------
(* The component as a state machine *)

NoEffect == [op |-> "", repository |-> "", arg |-> ""]
NotRendered ==
    [variant |-> "", primaryContainer |-> FALSE, primary |-> <<>>,
     actions |-> <<>>, link |-> "", opener |-> ""]
EmptyMemo ==
    [calledOnce |-> FALSE, lastArg |-> Undefined, lastResult |-> EmptyMap]

Props == [appMenu |-> appMenu, remote |-> remote, repository |-> repository]

\* The component is constructed with its props and has not rendered yet.
Init ==
    /\ platform \in Platforms
    /\ flag = FALSE
    /\ repository \in Repositories
    /\ appMenu \in MenuRefs \cup {Undefined}
    /\ remote \in Remotes
    /\ memo = EmptyMemo
    /\ out = NotRendered
    /\ log = <<>>
    /\ lookups = 0
    /\ builds = 0
    /\ effect = NoEffect

\* React renders the component with the props its parent supplies and the
\* feature flag as it is evaluated now.
Render ==
    \E menu \in MenuRefs \cup {Undefined}, rem \in Remotes,
       repo \in Repositories, enabled \in BOOLEAN :
        LET props == [appMenu |-> menu, remote |-> rem, repository |-> repo]
            st0 == [memo |-> memo, log |-> <<>>,
                    lookups |-> 0, builds |-> 0]
        IN  \E r \in {render(st0, props, enabled)} :
            /\ appMenu' = menu
            /\ remote' = rem
            /\ repository' = repo
            /\ flag' = enabled
            /\ memo' = r.st.memo
            /\ log' = r.st.log
            /\ lookups' = r.st.lookups
            /\ builds' = r.st.builds
            /\ out' = r.el
            /\ effect' = NoEffect
            /\ UNCHANGED platform

\* The link of the legacy panel: NoChanges.open.
open ==
    /\ out.link = "open"
    /\ effect' = [op |-> "revealInFileManager", repository |-> repository, arg |-> ""]
    /\ UNCHANGED <<platform, flag, repository, appMenu, remote, memo,
                   out, log, lookups, builds>>

onPublishRepositoryClicked ==
    /\ \E i \in 1..Len(out.primary) :
            out.primary[i].onClick = "onPublishRepositoryClicked"
    /\ effect' = [op |-> "showPopup", repository |-> repository,
                  arg |-> "PublishRepository"]
    /\ UNCHANGED <<platform, flag, repository, appMenu, remote, memo,
                   out, log, lookups, builds>>

openPreferences ==
    /\ \E i \in 1..Len(out.actions) :
            out.actions[i].menuItemId = "open-external-editor"
    /\ effect' = [op |-> "executeMenuItemById", repository |-> "",
                  arg |-> "preferences"]
    /\ UNCHANGED <<platform, flag, repository, appMenu, remote, memo,
                   out, log, lookups, builds>>

Next == Render \/ open \/ onPublishRepositoryClicked \/ openPreferences

Spec == Init /\ [][Next]_vars

----------------------------------------------------------------------------
(* The index builder on its own: any menu tree, one call of getMenuInfoMap *)

TreeIds == {"push", "preferences"}
TreeLabels == {"&File", "&Edit"}

\* Leaves come enabled under one label and disabled under the other.
TreeLeaves ==
    {Leaf(id, "&File", TRUE, NullAccelerator) : id \in TreeIds}
    \cup {Leaf(id, "&Edit", FALSE, NullAccelerator) : id \in TreeIds}
TreeSeparators == {Separator("push")}
TreeSubmenus(menus) ==
    {Submenu(id, label, TRUE, menu) :
        id \in TreeIds, label \in TreeLabels, menu \in menus}

\* The menus with exactly n items, all levels together.
RECURSIVE MenusOfSize(_), ItemsOfSize(_)
MenusOfSize(n) ==
    IF n = 0 THEN {<<>>}
    ELSE UNION {{<<item>> \o rest :
                    item \in ItemsOfSize(k), rest \in MenusOfSize(n - k)} :
                k \in 1..n}
ItemsOfSize(n) ==
    IF n = 1 THEN TreeLeaves \cup TreeSeparators \cup TreeSubmenus({<<>>})
    ELSE TreeSubmenus(MenusOfSize(n - 1))

TreeMenus == UNION {MenusOfSize(n) : n \in 0..MaxNodes}

\* The accelerator strings of at most MaxAccelLen atoms.
RECURSIVE AtomStrings(_)
AtomStrings(n) ==
    IF n = 0 THEN {<<>>}
    ELSE {<<>>} \cup {<<a>> \o s : a \in Atoms, s \in AtomStrings(n - 1)}

Accelerators == AtomStrings(MaxAccelLen)

\* One item with an accelerator, at the top level and inside a submenu.
AcceleratorMenus ==
    UNION {{ <<Leaf("push", "P&ush", TRUE, acc)>>,
             <<Submenu("@.Repository", "&Repository", TRUE,
                       <<Leaf("push", "P&ush", TRUE, acc)>>)>> } :
           acc \in Accelerators}

InitBuild ==
    /\ platform \in Platforms
    /\ flag = FALSE
    /\ repository = "repo-a"
    /\ appMenu \in {[ref |-> 1, items |-> items] :
                        items \in TreeMenus \cup AcceleratorMenus}
    /\ remote = Null
    /\ memo = EmptyMemo
    /\ out = NotRendered
    /\ log = <<>>
    /\ lookups = 0
    /\ builds = 0
    /\ effect = NoEffect

\* this.getMenuInfoMap(this.props.appMenu), as getMenuItemInfo calls it.
CallGetMenuInfoMap ==
    \E s \in {getMenuInfoMap([memo |-> memo, log |-> log,
                              lookups |-> lookups, builds |-> 0], appMenu)} :
        /\ memo' = s.memo
        /\ builds' = s.builds
        /\ UNCHANGED <<platform, flag, repository, appMenu, remote, out, log,
                       lookups, effect>>

NextBuild == CallGetMenuInfoMap

SpecBuild == InitBuild /\ [][NextBuild]_vars

----------------------------------------------------------------------------
(* What the index of a menu should be, stated without the builder *)

Reverse(s) == [i \in 1..Len(s) |-> s[Len(s) + 1 - i]]

\* The non-separator items reachable through submenu containers, in
\* document order, each with the labels of its ancestors from the top-level
\* submenu down to its immediate parent.
RECURSIVE Occurrences(_, _)
Occurrences(items, ancestors) ==
    IF items = <<>> THEN <<>>
    ELSE LET item == Head(items)
             here == IF item.type = "separator" THEN <<>>
                     ELSE <<[item |-> item, ancestors |-> ancestors]>>
             below == IF item.type = "submenuItem"
                      THEN Occurrences(item.menu, Append(ancestors, item.label))
                      ELSE <<>>
         IN  here \o below \o Occurrences(Tail(items), ancestors)

OccurrencesOf(menu) == Occurrences(menu.items, <<>>)

IdsOf(occ) == {occ[i].item.id : i \in 1..Len(occ)}

LastOccurrence(occ, id) ==
    occ[CHOOSE i \in 1..Len(occ) :
            /\ occ[i].item.id = id
            /\ \A j \in (i + 1)..Len(occ) : occ[j].item.id # id]

DistinctIds(occ) ==
    \A i, j \in 1..Len(occ) : occ[i].item.id = occ[j].item.id => i = j

\* The tokens between the delimiters of an accelerator, by position.
PlusPositions(acc) == {i \in 1..Len(acc) : acc[i] = Plus}
Boundary(acc, n) ==
    IF n = 0 THEN 0
    ELSE IF n > Cardinality(PlusPositions(acc)) THEN Len(acc) + 1
    ELSE CHOOSE p \in PlusPositions(acc) :
            Cardinality({q \in PlusPositions(acc) : q < p}) = n - 1
Tokens(acc) ==
    [n \in 1..(Cardinality(PlusPositions(acc)) + 1) |->
        SubSeq(acc, Boundary(acc, n - 1) + 1, Boundary(acc, n) - 1)]

ExpectedKeys(item) ==
    IF item.type = "menuItem" /\ item.accelerator # NullAccelerator
    THEN [n \in 1..Len(Tokens(item.accelerator)) |->
            getPlatformSpecificNameOrSymbolForModifier(Tokens(item.accelerator)[n])]
    ELSE <<>>

ExpectedInfo(o) ==
    [label |-> o.item.label,
     acceleratorKeys |-> ExpectedKeys(o.item),
     parentMenuLabels |-> Reverse(o.ancestors),
     enabled |-> o.item.enabled]

ExpectedIndex(menu) ==
    IF menu = Undefined THEN EmptyMap
    ELSE [id \in IdsOf(OccurrencesOf(menu)) |->
            ExpectedInfo(LastOccurrence(OccurrencesOf(menu), id))]

Present(id) == id \in DOMAIN ExpectedIndex(appMenu)
Enabled(id) == Present(id) /\ ExpectedIndex(appMenu)[id].enabled
Shown(id) == \E i \in 1..Len(out.actions) : out.actions[i].menuItemId = id
Logged(id) == \E i \in 1..Len(log) : log[i] = id
PublishShown ==
    /\ out.primaryContainer
    /\ Len(out.primary) = 1
    /\ out.primary[1].buttonText = "Publish repository"
    /\ out.primary[1].type = "primary"
NoPrimary == ~out.primaryContainer /\ out.primary = <<>>
SecondaryIds ==
    {"open-working-directory", "open-external-editor", "view-repository-on-github"}
Built == memo.calledOnce /\ memo.lastArg = appMenu /\ appMenu # Undefined

----------------------------------------------------------------------------
(* Claims *)

\* C1 as stated: in an Enhanced render a null remote shows the publish
\* action as the only primary action whatever the menu model is, and a
\* non-null remote shows no primary action and no primary container.
C1_PublishForEveryMenu ==
    out.variant = "Enhanced" =>
        IF remote = Null THEN PublishShown ELSE NoPrimary

\* C1 amended: with a null remote the publish action is the only primary
\* action exactly when the index has an entry for 'push' (enabled or not);
\* without that entry an error is logged for 'push' and no primary action
\* or container appears; with a non-null remote none appears either.
C1_PublishWhenPushIndexed ==
    out.variant = "Enhanced" =>
        /\ (remote = Null /\ Present("push")) => PublishShown
        /\ (remote = Null /\ ~Present("push")) => (NoPrimary /\ Logged("push"))
        /\ remote # Null => (NoPrimary /\ ~Logged("push"))

C1_Witness ==
    /\ out.variant = "Enhanced"
    /\ remote = Null
    /\ Present("push") /\ ~Enabled("push")
    /\ PublishShown

\* C2 as stated: the keys are exactly the identifiers of the reachable
\* non-separator items, and every such item is found under its own
\* identifier with its own label and enabled flag.
C2_EveryItemUnderItsId ==
    Built =>
        LET occ == OccurrencesOf(appMenu) IN
        /\ DOMAIN memo.lastResult = IdsOf(occ)
        /\ \A i \in 1..Len(occ) :
              /\ memo.lastResult[occ[i].item.id].label = occ[i].item.label
              /\ memo.lastResult[occ[i].item.id].enabled = occ[i].item.enabled

\* C2 amended: the keys are exactly the identifiers of the reachable
\* non-separator items (no separator adds a key); the entry of an
\* identifier carries the label and enabled flag of the last item in
\* document order that has it, so every item is found under its own
\* identifier when the identifiers are pairwise distinct.
C2_KeysAndLastItemWins ==
    Built =>
        LET occ == OccurrencesOf(appMenu) IN
        /\ DOMAIN memo.lastResult = IdsOf(occ)
        /\ \A id \in DOMAIN memo.lastResult :
              /\ memo.lastResult[id].label = LastOccurrence(occ, id).item.label
              /\ memo.lastResult[id].enabled = LastOccurrence(occ, id).item.enabled
        /\ DistinctIds(occ) =>
              \A i \in 1..Len(occ) :
                  /\ memo.lastResult[occ[i].item.id].label = occ[i].item.label
                  /\ memo.lastResult[occ[i].item.id].enabled = occ[i].item.enabled

C2_Witness ==
    /\ Built
    /\ \E i \in 1..Len(appMenu.items) : appMenu.items[i].type = "separator"
    /\ LET occ == OccurrencesOf(appMenu) IN
       \E i, j \in 1..Len(occ) :
            /\ i < j
            /\ occ[i].item.id = occ[j].item.id
            /\ occ[i].item.label # occ[j].item.label
            /\ occ[j].ancestors # <<>>

\* C3: the index an Enhanced render consults is the whole flattening of the
\* appMenu given to that render, empty for undefined, whatever menus the
\* earlier renders were given.
C3_IndexIsCurrentMenu ==
    out.variant = "Enhanced" =>
        /\ memo.calledOnce
        /\ memo.lastArg = appMenu
        /\ memo.lastResult = ExpectedIndex(appMenu)

C3_Witness ==
    /\ out.variant = "Enhanced"
    /\ builds = 1
    /\ appMenu # Undefined
    /\ appMenu.ref = MaxMenus
    /\ Cardinality(DOMAIN memo.lastResult) > Len(ActionIdSeq)

\* C4: a render that looks the index up with the reference of the preceding
\* call keeps the memoised mapping and runs the builder zero times, and no
\* render runs it more than once.
C4_SameReferenceNoRebuild ==
    /\ [](builds <= 1)
    /\ [][(/\ effect' = NoEffect
           /\ out'.variant = "Enhanced"
           /\ memo.calledOnce
           /\ memo.lastArg = appMenu')
          => (memo' = memo /\ builds' = 0)]_vars

C4_Witness ==
    /\ out.variant = "Enhanced"
    /\ builds = 0
    /\ lookups >= 4
    /\ appMenu # Undefined

\* C5: in an Enhanced render a secondary action whose menu identifier is
\* absent from the index is omitted and an error is logged for it, the
\* render completes, and each action is present exactly when its own
\* entries allow it, whatever the other entries are.
C5_AbsentOmittedOthersKept ==
    out.variant = "Enhanced" =>
        /\ \A id \in SecondaryIds : ~Present(id) => (~Shown(id) /\ Logged(id))
        /\ Shown("open-working-directory") <=> Enabled("open-working-directory")
        /\ Shown("view-repository-on-github") <=> Enabled("view-repository-on-github")
        /\ Shown("open-external-editor") <=>
              (Enabled("open-external-editor") /\ Present("preferences"))
        /\ \A i \in 1..Len(log) : log[i] \in SecondaryIds \cup {"push"}

C5_Witness ==
    /\ out.variant = "Enhanced"
    /\ ~Present("open-working-directory")
    /\ Logged("open-working-directory")
    /\ Len(out.actions) = 2

\* C6: in an Enhanced render a secondary action whose menu item is indexed
\* but disabled is omitted, and one whose item is enabled (with the
\* preferences entry present, for the editor action) is rendered with the
\* menu item's label as its button text.
C6_DisabledOmittedEnabledLabelled ==
    out.variant = "Enhanced" =>
        \A id \in SecondaryIds :
            /\ (Present(id) /\ ~Enabled(id)) => ~Shown(id)
            /\ (Enabled(id) /\ (id = "open-external-editor" => Present("preferences")))
                  => \E i \in 1..Len(out.actions) :
                        /\ out.actions[i].menuItemId = id
                        /\ out.actions[i].buttonText
                              = LastOccurrence(OccurrencesOf(appMenu), id).item.label

C6_Witness ==
    /\ out.variant = "Enhanced"
    /\ Present("view-repository-on-github")
    /\ ~Enabled("view-repository-on-github")
    /\ ~Shown("view-repository-on-github")
    /\ Shown("open-external-editor")

\* C7: the accelerator keys of an index entry are empty for a submenu
\* container and for a leaf whose accelerator is null (and for a
\* separator, were it asked); for a leaf with an accelerator they are the
\* '+'-separated tokens, in order, each passed through the platform lookup,
\* as many as there are tokens.
C7_AcceleratorKeys ==
    Built =>
        LET occ == OccurrencesOf(appMenu) IN
        /\ \A id \in DOMAIN memo.lastResult :
              LET item == LastOccurrence(occ, id).item
                  keys == memo.lastResult[id].acceleratorKeys
              IN  /\ keys = ExpectedKeys(item)
                  /\ item.type = "submenuItem" => keys = <<>>
                  /\ item.accelerator = NullAccelerator => keys = <<>>
                  /\ (item.type = "menuItem" /\ item.accelerator # NullAccelerator)
                        => Len(keys) = Cardinality(PlusPositions(item.accelerator)) + 1
        /\ \A i \in 1..Len(appMenu.items) :
              appMenu.items[i].type = "separator"
                  => getItemAcceleratorKeys(appMenu.items[i]) = <<>>

C7_Witness ==
    /\ Built
    /\ platform = "darwin"
    /\ "push" \in DOMAIN memo.lastResult
    /\ memo.lastResult["push"].parentMenuLabels # <<>>
    /\ memo.lastResult["push"].acceleratorKeys = << <<"CommandSymbol">>, <<"P">> >>

\* C8: the editor action is rendered only if both 'open-external-editor'
\* and 'preferences' are indexed; without 'preferences' it is omitted even
\* when 'open-external-editor' is enabled; 'preferences' need not be enabled.
C8_EditorNeedsPreferencesEntry ==
    out.variant = "Enhanced" =>
        /\ Shown("open-external-editor")
              => (Present("open-external-editor") /\ Present("preferences"))
        /\ ~Present("preferences") => ~Shown("open-external-editor")
        /\ (Enabled("open-external-editor") /\ Present("preferences")
                /\ ~Enabled("preferences"))
              => Shown("open-external-editor")

C8_Witness ==
    /\ out.variant = "Enhanced"
    /\ Enabled("open-external-editor")
    /\ ~Present("preferences")
    /\ ~Shown("open-external-editor")
    /\ Logged("open-external-editor")

\* C9: a render yields the Legacy panel exactly when the flag it evaluates
\* is off and the Enhanced panel when it is on; the Legacy render looks
\* nothing up, logs nothing and shows no publish or secondary action, and
\* its link reveals the current repository with the empty relative path;
\* what a render yields is what a first render with the same props and flag
\* yields.
C9_VariantFromFlagAlone ==
    out.variant # "" =>
        /\ out.variant = (IF flag THEN "Enhanced" ELSE "Legacy")
        /\ out.variant = "Legacy" =>
              /\ lookups = 0 /\ builds = 0 /\ log = <<>>
              /\ NoPrimary /\ out.actions = <<>>
              /\ out.link = "open"
        /\ out.variant = "Enhanced" => out.link = ""
        /\ effect.op = "revealInFileManager" =>
              /\ out.variant = "Legacy"
              /\ effect.repository = repository
              /\ effect.arg = ""
        /\ out = render([memo |-> EmptyMemo, log |-> <<>>, lookups |-> 0,
                         builds |-> 0], Props, flag).el

C9_Witness ==
    /\ out.variant = "Legacy"
    /\ memo.calledOnce
    /\ memo.lastArg # appMenu
    /\ effect.op = "revealInFileManager"
    /\ effect.repository = "repo-b"

\* C10: the parentMenuLabels of an index entry are the labels of the item's
\* ancestors from its immediate parent outward to the top-level submenu, as
\* many as the item is deep, and empty for a top-level item; every entry
\* follows this one ordering.
C10_ParentLabelsInnermostFirst ==
    Built =>
        LET occ == OccurrencesOf(appMenu) IN
        \A id \in DOMAIN memo.lastResult :
            LET o == LastOccurrence(occ, id)
                labels == memo.lastResult[id].parentMenuLabels
            IN  /\ Len(labels) = Len(o.ancestors)
                /\ \A n \in 1..Len(labels) :
                      labels[n] = o.ancestors[Len(o.ancestors) + 1 - n]

C10_Witness ==
    /\ Built
    /\ \E id \in DOMAIN memo.lastResult :
          /\ Len(memo.lastResult[id].parentMenuLabels) = 2
          /\ memo.lastResult[id].parentMenuLabels[1]
                # memo.lastResult[id].parentMenuLabels[2]

====
